---- MODULE Spec2Model ----
(***************************************************************************)
(* Model of plot_realtime.py: a UDP receiver thread (DataPlotter.          *)
(* _update_data) decodes datagrams into Measurements and appends them to   *)
(* a deque under a lock, evicting stale entries; the main thread builds    *)
(* the DataPlotter and then calls update() forever, which copies the deque *)
(* under the same lock and plots the copy.                                 *)
(*                                                                         *)
(* time.time() is modelled by the integer variable clock, which only       *)
(* moves forward (Tick).  JSON numbers are modelled by integers.           *)
(***************************************************************************)
EXTENDS Integers, Sequences, FiniteSets, TLC

\* ---------------------------------------------------------------- bounds
\* Largest value of the clock.
MaxClock == 2
\* Largest number of datagrams the socket delivers.
MaxRecv == 3
\* window_s, the constructor argument (10 in __main__), scaled down.
WindowS == 1

\* ------------------------------------------------------------ JSON values
\* A JSON scalar: a number, a string (non-numeric), or no value for a key.
\* json.loads turns a number written with a fraction or an exponent into a
\* float (Num) and one written without into an int (IntNum).
Num(n) == [k |-> "num", n |-> n]
IntNum(n) == [k |-> "int", n |-> n]
Str == [k |-> "str", n |-> 0]
Absent == [k |-> "absent", n |-> 0]

\* A JSON value under "gyro"/"acc": an object with keys x, y, z (each of
\* which may be absent), a scalar, or no value for the key.
Obj(x, y, z) == [k |-> "obj", x |-> x, y |-> y, z |-> z]
ScalarVec == [k |-> "scalar", x |-> Absent, y |-> Absent, z |-> Absent]
AbsentVec == [k |-> "absent", x |-> Absent, y |-> Absent, z |-> Absent]

\* A datagram payload: bytes that are not JSON ("malformed"), JSON that is
\* not an object ("nonobject"), or a JSON object with the keys below.
Payload(form, roll, pitch, temp, gyro, acc) ==
    [form |-> form, roll |-> roll, pitch |-> pitch, temp |-> temp,
     gyro |-> gyro, acc |-> acc]

\* The wire format's example: gyro and acc are written as integers.
GoodPayload ==
    Payload("object", Num(1), Num(-2), Num(36),
            Obj(IntNum(0), IntNum(0), IntNum(0)),
            Obj(IntNum(0), IntNum(0), IntNum(1)))
MalformedPayload ==
    [GoodPayload EXCEPT !.form = "malformed"]
NonObjectPayload ==
    [GoodPayload EXCEPT !.form = "nonobject"]
NoTempPayload ==
    [GoodPayload EXCEPT !.temp = Absent]
NoGyroPayload ==
    [GoodPayload EXCEPT !.gyro = AbsentVec]
ScalarAccPayload ==
    [GoodPayload EXCEPT !.acc = ScalarVec]
NoAccZPayload ==
    [GoodPayload EXCEPT !.acc = Obj(Num(0), Num(0), Absent)]
\* A reading whose roll is a string and whose gyro and acc are written as
\* floats (0.0, 0.0, 1.0).
StringRollPayload ==
    Payload("object", Str, Num(-2), Num(36),
            Obj(Num(0), Num(0), Num(0)), Obj(Num(0), Num(0), Num(1)))

\* The datagrams the socket may deliver.
Datagrams ==
    {GoodPayload, MalformedPayload, NonObjectPayload, NoTempPayload,
     NoGyroPayload, ScalarAccPayload, NoAccZPayload, StringRollPayload}

\* ------------------------------------------------------------- decoding
\* json.loads(data) raises on bytes that are not JSON.
JsonLoadsRaises(d) == d.form = "malformed"

\* json_data[key] raises when json_data is no object (TypeError) or has no
\* such key (KeyError).
TopLookupRaises(d, v) == d.form # "object" \/ v.k = "absent"

\* json_data[key]["x"] raises when json_data[key] raises, when its value is
\* no object (TypeError), or when the object has no such key (KeyError).
SubLookupRaises(d, vec, v) ==
    TopLookupRaises(d, vec) \/ vec.k # "obj" \/ v.k = "absent"

\* deserialize with json_data.get("temp") for json_data["temp"]: a missing
\* temp no longer raises.
DeserializeRaisesTempOptional(d) ==
    \/ d.form # "object"
    \/ d.roll.k = "absent"
    \/ d.pitch.k = "absent"
    \/ d.gyro.k # "obj" \/ d.gyro.x.k = "absent" \/ d.gyro.y.k = "absent"
    \/ d.gyro.z.k = "absent"
    \/ d.acc.k # "obj" \/ d.acc.x.k = "absent" \/ d.acc.y.k = "absent"
    \/ d.acc.z.k = "absent"

\* Measurement.deserialize raises (and returns nothing) exactly when one of
\* its lookups raises; the values themselves are never inspected.
DeserializeRaises(d) ==
    \/ JsonLoadsRaises(d)
    \/ TopLookupRaises(d, d.roll)
    \/ TopLookupRaises(d, d.pitch)
    \/ TopLookupRaises(d, d.temp)
    \/ SubLookupRaises(d, d.gyro, d.gyro.x)
    \/ SubLookupRaises(d, d.gyro, d.gyro.y)
    \/ SubLookupRaises(d, d.gyro, d.gyro.z)
    \/ SubLookupRaises(d, d.acc, d.acc.x)
    \/ SubLookupRaises(d, d.acc, d.acc.y)
    \/ SubLookupRaises(d, d.acc, d.acc.z)

\* The Measurement built by deserialize when nothing raises; t is the value
\* time.time() returned at the start of the call.
Deserialize(d, t) ==
    [timestamp |-> t,
     temp |-> d.temp,
     rot |-> [roll |-> d.roll, pitch |-> d.pitch],
     gyro |-> [x |-> d.gyro.x, y |-> d.gyro.y, z |-> d.gyro.z],
     acc |-> [x |-> d.acc.x, y |-> d.acc.y, z |-> d.acc.z]]

\* ----------------------------------------------------------------- state
VARIABLES
    clock,       \* time.time()
    mainPc,      \* position of the main thread (constructor, then update())
    recvPc,      \* position of the receiver thread (_update_data)
    sockBound,   \* whether UdpListener's socket is bound
    start_time,  \* DataPlotter._start_time
    data,        \* DataPlotter._data (the deque)
    lock,        \* DataPlotter._lock: "free", "receiver" or "consumer"
    raw,         \* datagram returned by recvfrom, <<>> when none
    point,       \* _update_data's local point, <<>> before the first decode
    now,         \* _update_data_while_locked's local now
    snapshot,    \* update()'s local data (the list copied from the deque)
    nRecv,       \* number of datagrams recvfrom has returned
    nDecoded,    \* history: number of Measurements deserialize has returned
    appended,    \* history: every Measurement passed to deque.append, in order
    nEvicted,    \* history: number of deque.popleft calls
    meas_type,   \* DataPlotter._meas_type: "temp", "rot", "gyro" or "acc"
    lines,       \* DataPlotter._lines: each line's xdata and ydata
    xlim,        \* the axes' x range, <<low, high>>
    ylim,        \* the axes' y range, <<low, high>>, in hundredths
    sockClosed,  \* UdpListener._sock has been closed (close(), lines 89-90)
    running      \* the interpreter runs: the main thread has not ended

\* The state of the figure, and the channel it shows.
plot == <<meas_type, lines, xlim, ylim>>

vars == <<clock, mainPc, recvPc, sockBound, start_time, data, lock, raw,
          point, now, snapshot, nRecv, nDecoded, appended, nEvicted,
          meas_type, lines, xlim, ylim, sockClosed, running>>

\* MeasType's names (lines 66-70); argparse admits no other.
MeasTypes == {"temp", "rot", "gyro", "acc"}


Init ==
    /\ clock = 0
    /\ mainPc = "ctor"
    /\ recvPc = "notstarted"
    /\ sockBound = FALSE
    /\ start_time = 0
    /\ data = <<>>
    /\ lock = "free"
    /\ raw = <<>>
    /\ point = <<>>
    /\ now = 0
    /\ snapshot = <<>>
    /\ nRecv = 0
    /\ nDecoded = 0
    /\ appended = <<>>
    /\ nEvicted = 0
    /\ meas_type \in MeasTypes
    /\ lines = <<>>
    /\ xlim = <<0, 0>>
    /\ ylim = <<0, 0>>
    /\ sockClosed = FALSE
    /\ running = TRUE

\* ----------------------------------------------------------------- clock
\* time.time() as the program reads it: it stops with the interpreter.
Tick ==
    /\ running
    /\ clock < MaxClock
    /\ clock' = clock + 1
    /\ UNCHANGED <<mainPc, recvPc, sockBound, start_time, data, lock, raw,
                   point, now, snapshot, nRecv, nDecoded, appended, nEvicted>>
    /\ UNCHANGED plot
    /\ UNCHANGED <<sockClosed, running>>

\* ----------------------------------------------- DataPlotter.__init__
\* UdpListener.__init__ returns: the socket is bound to ("0.0.0.0", port).
CtorBindOk ==
    /\ mainPc = "ctor"
    /\ sockBound' = TRUE
    /\ mainPc' = "bound"
    /\ UNCHANGED <<clock, recvPc, start_time, data, lock, raw, point, now,
                   snapshot, nRecv, nDecoded, appended, nEvicted>>
    /\ UNCHANGED plot
    /\ UNCHANGED <<sockClosed, running>>

\* A bind that fails but whose error is swallowed, so that the constructor
\* goes on with an unbound socket.
CtorBindFailsSwallowed ==
    /\ mainPc = "ctor"
    /\ mainPc' = "bound"
    /\ UNCHANGED <<clock, recvPc, sockBound, start_time, data, lock, raw,
                   point, now, snapshot, nRecv, nDecoded, appended, nEvicted>>
    /\ UNCHANGED plot
    /\ UNCHANGED <<sockClosed, running>>

\* self._sock.bind raises OSError: it leaves UdpListener.__init__ and
\* DataPlotter.__init__ (line 101), neither of which catches it.
CtorBindFails ==
    /\ mainPc = "ctor"
    /\ mainPc' = "raised"
    /\ UNCHANGED <<clock, recvPc, sockBound, start_time, data, lock, raw,
                   point, now, snapshot, nRecv, nDecoded, appended, nEvicted>>
    /\ UNCHANGED plot
    /\ UNCHANGED <<sockClosed, running>>

\* Lines 102-104: the start time is read, the deque and the lock are made.
CtorFields ==
    /\ mainPc = "bound"
    /\ start_time' = clock
    /\ data' = <<>>
    /\ lock' = "free"
    /\ mainPc' = "start"
    /\ UNCHANGED <<clock, recvPc, sockBound, raw, point, now, snapshot,
                   nRecv, nDecoded, appended, nEvicted>>
    /\ UNCHANGED plot
    /\ UNCHANGED <<sockClosed, running>>

\* n_series with gyro left out of the test at line 114: gyro falls to the
\* last branch.
NSeriesAccOnly(mt) ==
    IF mt = "acc" THEN 3 ELSE IF mt = "rot" THEN 2 ELSE 1

\* n_series, lines 114-119.
NSeries(mt) ==
    IF mt \in {"acc", "gyro"} THEN 3 ELSE IF mt = "rot" THEN 2 ELSE 1

\* self._ax.plot([], [], label=label)[0], line 141: a line without points.
EmptyLine == [xdata |-> <<>>, ydata |-> <<>>]

\* The start time read after the thread is started instead of before: the
\* value stored is the clock of some later moment.
CtorStartThreadThenStamp ==
    /\ mainPc = "start"
    /\ recvPc' = "recv"
    /\ mainPc' = "figure"
    /\ start_time' \in clock..MaxClock
    /\ UNCHANGED <<clock, sockBound, data, lock, raw, point, now, snapshot,
                   nRecv, nDecoded, appended, nEvicted>>
    /\ UNCHANGED plot
    /\ UNCHANGED <<sockClosed, running>>

\* Lines 105-107: the receiver thread (a daemon thread) is made and
\* started; from here on it runs beside the rest of the constructor.
CtorStartThread ==
    /\ mainPc = "start"
    /\ recvPc' = "recv"
    /\ mainPc' = "figure"
    /\ UNCHANGED <<clock, sockBound, start_time, data, lock, raw, point, now,
                   snapshot, nRecv, nDecoded, appended, nEvicted>>
    /\ UNCHANGED plot
    /\ UNCHANGED <<sockClosed, running>>

\* Lines 109-148: the figure is made, with one empty line per series
\* (lines 114-141) and the x range [0, window_s] (line 148); the constructor
\* returns and __main__ goes on to call update() forever.
CtorFigure ==
    /\ mainPc = "figure"
    /\ mainPc' = "idle"
    /\ lines' = [i \in 1..NSeries(meas_type) |-> EmptyLine]
    /\ xlim' = <<0, WindowS>>
    /\ UNCHANGED <<clock, recvPc, sockBound, start_time, data, lock, raw,
                   point, now, snapshot, nRecv, nDecoded, appended, nEvicted,
                   meas_type, ylim>>
    /\ UNCHANGED <<sockClosed, running>>

\* ------------------------------------------- DataPlotter._update_data
\* recvfrom raises socket.timeout after one second without a datagram.
RecvTimeout ==
    /\ running
    /\ recvPc = "recv"
    /\ ~sockClosed
    /\ recvPc' = "timedout"
    /\ UNCHANGED <<clock, mainPc, sockBound, start_time, data, lock, raw,
                   point, now, snapshot, nRecv, nDecoded, appended, nEvicted>>
    /\ UNCHANGED plot
    /\ UNCHANGED <<sockClosed, running>>

\* "pass" for "continue": after a timeout the loop body goes on to the
\* with-block.
RecvContinueFallsThrough ==
    /\ running
    /\ recvPc = "timedout"
    /\ recvPc' = "lock"
    /\ UNCHANGED <<clock, mainPc, sockBound, start_time, data, lock, raw,
                   point, now, snapshot, nRecv, nDecoded, appended, nEvicted>>
    /\ UNCHANGED plot
    /\ UNCHANGED <<sockClosed, running>>

\* except socket.timeout: continue
RecvContinue ==
    /\ running
    /\ recvPc = "timedout"
    /\ recvPc' = "recv"
    /\ UNCHANGED <<clock, mainPc, sockBound, start_time, data, lock, raw,
                   point, now, snapshot, nRecv, nDecoded, appended, nEvicted>>
    /\ UNCHANGED plot
    /\ UNCHANGED <<sockClosed, running>>

\* recvfrom returns the datagram d.
RecvDatagram(d) ==
    /\ running
    /\ recvPc = "recv"
    /\ sockBound
    /\ nRecv < MaxRecv
    /\ raw' = <<d>>
    /\ nRecv' = nRecv + 1
    /\ recvPc' = "decode"
    /\ UNCHANGED <<clock, mainPc, sockBound, start_time, data, lock, point,
                   now, snapshot, nDecoded, appended, nEvicted>>
    /\ UNCHANGED plot
    /\ UNCHANGED <<sockClosed, running>>

\* recvfrom on the closed socket raises OSError (bad file descriptor).
\* _update_data catches socket.timeout only, so the receiver thread ends.
RecvClosed ==
    /\ running
    /\ recvPc = "recv"
    /\ sockClosed
    /\ recvPc' = "dead"
    /\ UNCHANGED <<clock, mainPc, sockBound, start_time, data, lock, raw,
                   point, now, snapshot, nRecv, nDecoded, appended, nEvicted>>
    /\ UNCHANGED plot
    /\ UNCHANGED <<sockClosed, running>>

\* Measurement.deserialize(raw_data[0]) returns: point is assigned.
RecvDecodeOk ==
    /\ running
    /\ recvPc = "decode"
    /\ ~DeserializeRaises(raw[1])
    /\ point' = <<Deserialize(raw[1], clock)>>
    /\ nDecoded' = nDecoded + 1
    /\ raw' = <<>>
    /\ recvPc' = "lock"
    /\ UNCHANGED <<clock, mainPc, sockBound, start_time, data, lock, now,
                   snapshot, nRecv, appended, nEvicted>>
    /\ UNCHANGED plot
    /\ UNCHANGED <<sockClosed, running>>

\* Measurement.deserialize raises (JSONDecodeError, KeyError or TypeError).
\* _update_data catches socket.timeout only, so the exception leaves the
\* thread's target function and the receiver thread ends.
RecvDecodeRaises ==
    /\ running
    /\ recvPc = "decode"
    /\ DeserializeRaises(raw[1])
    /\ raw' = <<>>
    /\ recvPc' = "dead"
    /\ UNCHANGED <<clock, mainPc, sockBound, start_time, data, lock, point,
                   now, snapshot, nRecv, nDecoded, appended, nEvicted>>
    /\ UNCHANGED plot
    /\ UNCHANGED <<sockClosed, running>>

\* with self._lock: (entry) -- blocks until the lock is free.
RecvAcquire ==
    /\ running
    /\ recvPc = "lock"
    /\ lock = "free"
    /\ lock' = "receiver"
    /\ recvPc' = "append"
    /\ UNCHANGED <<clock, mainPc, sockBound, start_time, data, raw, point,
                   now, snapshot, nRecv, nDecoded, appended, nEvicted>>
    /\ UNCHANGED plot
    /\ UNCHANGED <<sockClosed, running>>

\* ------------------------------ DataPlotter._update_data_while_locked
\* appendleft for append: the new point is put at the front.
RecvAppendLeft ==
    /\ running
    /\ recvPc = "append"
    /\ data' = <<point[1]>> \o data
    /\ appended' = Append(appended, point[1])
    /\ recvPc' = "now"
    /\ UNCHANGED <<clock, mainPc, sockBound, start_time, lock, raw, point,
                   now, snapshot, nRecv, nDecoded, nEvicted>>
    /\ UNCHANGED plot
    /\ UNCHANGED <<sockClosed, running>>

\* The append as seen when update() keeps the deque itself (data =
\* self._data) instead of a copy: the consumer's list grows with the deque.
RecvAppendAliased ==
    /\ running
    /\ recvPc = "append"
    /\ data' = Append(data, point[1])
    /\ appended' = Append(appended, point[1])
    /\ snapshot' = IF mainPc \in {"check", "project", "draw"}
                   THEN Append(data, point[1]) ELSE snapshot
    /\ recvPc' = "now"
    /\ UNCHANGED <<clock, mainPc, sockBound, start_time, lock, raw, point,
                   now, nRecv, nDecoded, nEvicted>>
    /\ UNCHANGED plot
    /\ UNCHANGED <<sockClosed, running>>

\* self._data.append(point)
RecvAppend ==
    /\ running
    /\ recvPc = "append"
    /\ data' = Append(data, point[1])
    /\ appended' = Append(appended, point[1])
    /\ recvPc' = "now"
    /\ UNCHANGED <<clock, mainPc, sockBound, start_time, lock, raw, point,
                   now, snapshot, nRecv, nDecoded, nEvicted>>
    /\ UNCHANGED plot
    /\ UNCHANGED <<sockClosed, running>>

\* now = time.time()
RecvNow ==
    /\ running
    /\ recvPc = "now"
    /\ now' = clock
    /\ recvPc' = "evict"
    /\ UNCHANGED <<clock, mainPc, sockBound, start_time, data, lock, raw,
                   point, snapshot, nRecv, nDecoded, appended, nEvicted>>
    /\ UNCHANGED plot
    /\ UNCHANGED <<sockClosed, running>>

\* The comparison written with "<=" for "<".
StaleInclusive(m, t) == m.timestamp <= t - WindowS

\* self._data[0].timestamp < now - self._window_s, with m = self._data[0]
Stale(m, t) == m.timestamp < t - WindowS

\* The eviction written with "if" for "while": at most one popleft per call.
RecvEvictOnce ==
    /\ running
    /\ recvPc = "evict"
    /\ IF Len(data) > 0 /\ data[1].timestamp < now - WindowS
       THEN /\ data' = Tail(data)
            /\ nEvicted' = nEvicted + 1
       ELSE UNCHANGED <<data, nEvicted>>
    /\ recvPc' = "unlock"
    /\ UNCHANGED <<clock, mainPc, sockBound, start_time, lock, raw, point,
                   now, snapshot, nRecv, nDecoded, appended>>
    /\ UNCHANGED plot
    /\ UNCHANGED <<sockClosed, running>>

\* One pass of the loop "while len(self._data)": popleft when the front is
\* stale, else break; the loop also ends when the deque is empty.
RecvEvict ==
    /\ running
    /\ recvPc = "evict"
    /\ IF Len(data) > 0 /\ Stale(data[1], now)
       THEN /\ data' = Tail(data)
            /\ nEvicted' = nEvicted + 1
            /\ recvPc' = "evict"
       ELSE /\ recvPc' = "unlock"
            /\ UNCHANGED <<data, nEvicted>>
    /\ UNCHANGED <<clock, mainPc, sockBound, start_time, lock, raw, point,
                   now, snapshot, nRecv, nDecoded, appended>>
    /\ UNCHANGED plot
    /\ UNCHANGED <<sockClosed, running>>

\* with self._lock: (exit)
RecvRelease ==
    /\ running
    /\ recvPc = "unlock"
    /\ lock' = "free"
    /\ now' = 0
    /\ recvPc' = "recv"
    /\ UNCHANGED <<clock, mainPc, sockBound, start_time, data, raw, point,
                   snapshot, nRecv, nDecoded, appended, nEvicted>>
    /\ UNCHANGED plot
    /\ UNCHANGED <<sockClosed, running>>

\* ------------------------------------------------- DataPlotter.update
\* update() without "with self._lock": the copy is made unguarded.
ConsAcquireUnlocked ==
    /\ mainPc = "idle"
    /\ mainPc' = "copy"
    /\ UNCHANGED <<clock, recvPc, sockBound, start_time, data, lock, raw,
                   point, now, snapshot, nRecv, nDecoded, appended, nEvicted>>
    /\ UNCHANGED plot
    /\ UNCHANGED <<sockClosed, running>>

\* with self._lock: (entry)
ConsAcquire ==
    /\ mainPc = "idle"
    /\ lock = "free"
    /\ lock' = "consumer"
    /\ mainPc' = "copy"
    /\ UNCHANGED <<clock, recvPc, sockBound, start_time, data, raw, point,
                   now, snapshot, nRecv, nDecoded, appended, nEvicted>>
    /\ UNCHANGED plot
    /\ UNCHANGED <<sockClosed, running>>

\* The copy written as a drain: the deque is emptied into the list.
ConsCopyDrain ==
    /\ mainPc = "copy"
    /\ snapshot' = data
    /\ data' = <<>>
    /\ mainPc' = "release"
    /\ UNCHANGED <<clock, recvPc, sockBound, start_time, lock, raw, point,
                   now, nRecv, nDecoded, appended, nEvicted>>
    /\ UNCHANGED plot
    /\ UNCHANGED <<sockClosed, running>>

\* data = list(self._data)
ConsCopy ==
    /\ mainPc = "copy"
    /\ snapshot' = data
    /\ mainPc' = "release"
    /\ UNCHANGED <<clock, recvPc, sockBound, start_time, data, lock, raw,
                   point, now, nRecv, nDecoded, appended, nEvicted>>
    /\ UNCHANGED plot
    /\ UNCHANGED <<sockClosed, running>>

\* The lock acquired with acquire() and never released.
ConsReleaseKeepsLock ==
    /\ mainPc = "release"
    /\ mainPc' = "check"
    /\ UNCHANGED <<clock, recvPc, sockBound, start_time, data, lock, raw,
                   point, now, snapshot, nRecv, nDecoded, appended, nEvicted>>
    /\ UNCHANGED plot
    /\ UNCHANGED <<sockClosed, running>>

\* with self._lock: (exit)
ConsRelease ==
    /\ mainPc = "release"
    /\ lock' = "free"
    /\ mainPc' = "check"
    /\ UNCHANGED <<clock, recvPc, sockBound, start_time, data, raw, point,
                   now, snapshot, nRecv, nDecoded, appended, nEvicted>>
    /\ UNCHANGED plot
    /\ UNCHANGED <<sockClosed, running>>

\* "if len(data) < 1" for "<= 1": only the empty copy returns early.
ConsCheckEmptyOnly ==
    /\ mainPc = "check"
    /\ IF Len(snapshot) < 1
       THEN /\ mainPc' = "idle"
            /\ snapshot' = <<>>
       ELSE /\ mainPc' = "project"
            /\ UNCHANGED snapshot
    /\ UNCHANGED <<clock, recvPc, sockBound, start_time, data, lock, raw,
                   point, now, nRecv, nDecoded, appended, nEvicted>>
    /\ UNCHANGED plot
    /\ UNCHANGED <<sockClosed, running>>

\* if len(data) <= 1: return
ConsCheck ==
    /\ mainPc = "check"
    /\ IF Len(snapshot) <= 1
       THEN /\ mainPc' = "idle"
            /\ snapshot' = <<>>
       ELSE /\ mainPc' = "project"
            /\ UNCHANGED snapshot
    /\ UNCHANGED <<clock, recvPc, sockBound, start_time, data, lock, raw,
                   point, now, nRecv, nDecoded, appended, nEvicted>>
    /\ UNCHANGED plot
    /\ UNCHANGED <<sockClosed, running>>

\* ---------------------------------------- update(): the projection
\* Series values and the y range are kept in hundredths, so that -9.8 * v
\* and 0.1 * |v| are integers.

\* timestamp, line 175: d.timestamp - self._start_time for d in data.
RelTimes(snap, t0) == [i \in 1..Len(snap) |-> snap[i].timestamp - t0]

\* timeseries before the unit conversion, lines 176-202: one row per
\* series, each row the raw values of one field over the copy.
Rows(snap, mt) ==
    IF mt \in {"acc", "gyro"}
    THEN LET vec(m) == IF mt = "acc" THEN m.acc ELSE m.gyro
         IN  << [i \in 1..Len(snap) |-> vec(snap[i]).x],
                [i \in 1..Len(snap) |-> vec(snap[i]).y],
                [i \in 1..Len(snap) |-> vec(snap[i]).z] >>
    ELSE IF mt = "rot"
    THEN << [i \in 1..Len(snap) |-> snap[i].rot.roll],
            [i \in 1..Len(snap) |-> snap[i].rot.pitch] >>
    ELSE << [i \in 1..Len(snap) |-> snap[i].temp] >>

\* The kinds of the values numpy finds in the rows.
RowKinds(rows) ==
    {rows[r][i].k : r \in 1..Len(rows), i \in 1..Len(rows[1])}

\* The dtype of np.array(rows): strings if any value is a string, else
\* float64 if any value is a float, else int64.
DType(rows) ==
    IF "str" \in RowKinds(rows) THEN "str"
    ELSE IF "num" \in RowKinds(rows) THEN "float" ELSE "int"

\* np.array over rows of different dtypes, one of them strings (line 197):
\* depending on the numpy at hand the rows are all turned into strings or
\* the call raises.
ArrayMayRaise(rows) ==
    /\ Len(rows) > 1
    /\ "str" \in RowKinds(rows)
    /\ RowKinds(rows) # {"str"}

\* timeseries *= -9.8, line 205: the in-place product of an int64 array (or
\* of an array of strings) with a float raises; only a float64 array can
\* take it.
MultiplyRaises(rows, mt) == mt = "acc" /\ DType(rows) # "float"

\* One projected value in hundredths: the raw value, times -9.8 for acc; a
\* value of an array of strings is a string.
Projected(v, rows, mt) ==
    IF DType(rows) = "str" THEN Str
    ELSE IF mt = "acc" THEN Num(v.n * (-980)) ELSE Num(v.n * 100)

\* timeseries after line 205.
Series(rows, mt) ==
    [r \in 1..Len(rows) |->
        [i \in 1..Len(rows[r]) |-> Projected(rows[r][i], rows, mt)]]

\* Lines 208-210: zip pairs each line with its row; every line gets the
\* relative timestamps and its row.
SetLines(old, rel, series) ==
    [r \in 1..Len(old) |->
        IF r <= Len(series)
        THEN [xdata |-> rel, ydata |-> series[r]]
        ELSE old[r]]

\* Lines 212-215: the x range.
XLimOf(rel) ==
    IF rel[Len(rel)] >= WindowS
    THEN <<rel[1], rel[Len(rel)]>>
    ELSE <<0, WindowS>>

\* Lines 217-221: the y range over all the series together.
YLimOf(series) ==
    LET all == {series[r][i].n : r \in 1..Len(series),
                                 i \in 1..Len(series[1])}
        lo  == CHOOSE v \in all : \A w \in all : v <= w
        hi  == CHOOSE v \in all : \A w \in all : v >= w
        abs(v) == IF v < 0 THEN -v ELSE v
    IN  <<lo - abs(lo) \div 10, hi + abs(hi) \div 10>>

\* Lines 175-221.  The copy has at least two elements here.  update() ends
\* with an exception (which __main__ does not catch, see MainExit):
\*   "raised_array":    np.array raises at line 197, nothing drawn;
\*   "raised_multiply": line 205 raises, nothing drawn;
\*   "raised_assert":   the assertion of line 207 fails, nothing drawn;
\*   "raised_min":      np.min / np.abs of an array of strings raises at
\*                      lines 217-218, after the lines and the x range are set.
ConsProject ==
    /\ mainPc = "project"
    /\ LET rows == Rows(snapshot, meas_type)
           rel == RelTimes(snapshot, start_time)
           series == Series(rows, meas_type)
       IN  \E arrayRaises \in {b \in BOOLEAN : b => ArrayMayRaise(rows)} :
             IF arrayRaises
             THEN /\ mainPc' = "raised_array"
                  /\ UNCHANGED <<lines, xlim, ylim>>
             ELSE IF MultiplyRaises(rows, meas_type)
             THEN /\ mainPc' = "raised_multiply"
                  /\ UNCHANGED <<lines, xlim, ylim>>
             ELSE IF Len(series) # Len(lines)
             THEN /\ mainPc' = "raised_assert"
                  /\ UNCHANGED <<lines, xlim, ylim>>
             ELSE IF DType(rows) = "str"
             THEN /\ mainPc' = "raised_min"
                  /\ lines' = SetLines(lines, rel, series)
                  /\ xlim' = XLimOf(rel)
                  /\ UNCHANGED ylim
             ELSE /\ mainPc' = "draw"
                  /\ lines' = SetLines(lines, rel, series)
                  /\ xlim' = XLimOf(rel)
                  /\ ylim' = YLimOf(series)
    /\ snapshot' = IF mainPc' = "draw" THEN snapshot ELSE <<>>
    /\ UNCHANGED <<clock, recvPc, sockBound, start_time, data, lock, raw,
                   point, now, nRecv, nDecoded, appended, nEvicted,
                   meas_type>>
    /\ UNCHANGED <<sockClosed, running>>

\* self._fig.canvas.draw(), and update() returns.
ConsDraw ==
    /\ mainPc = "draw"
    /\ mainPc' = "idle"
    /\ snapshot' = <<>>
    /\ UNCHANGED <<clock, recvPc, sockBound, start_time, data, lock, raw,
                   point, now, nRecv, nDecoded, appended, nEvicted>>
    /\ UNCHANGED plot
    /\ UNCHANGED <<sockClosed, running>>

\* ------------------------------------------------- close() and the exit
\* DataPlotter.close() (lines 225-226) calls UdpListener.close() (lines
\* 89-90): the socket is closed.  The owner of the plotter calls it between
\* two calls of update(); the receiver thread is not told.
Close ==
    /\ mainPc = "idle"
    /\ ~sockClosed
    /\ sockClosed' = TRUE
    /\ sockBound' = FALSE
    /\ UNCHANGED <<clock, mainPc, recvPc, start_time, data, lock, raw, point,
                   now, snapshot, nRecv, nDecoded, appended, nEvicted>>
    /\ UNCHANGED plot
    /\ UNCHANGED running

\* The main thread has ended with an exception.
Raised ==
    mainPc \in {"raised", "raised_array", "raised_multiply", "raised_assert",
                "raised_min"}

\* __main__ (lines 248-251) catches nothing: an exception of the constructor
\* or of update() ends the main thread and the interpreter exits.  The
\* receiver is a daemon thread (line 105), so it is stopped wherever it
\* stands, some time after the exception.
MainExit ==
    /\ Raised
    /\ running
    /\ running' = FALSE
    /\ UNCHANGED <<clock, mainPc, recvPc, sockBound, start_time, data, lock,
                   raw, point, now, snapshot, nRecv, nDecoded, appended,
                   nEvicted>>
    /\ UNCHANGED plot
    /\ UNCHANGED sockClosed

\* ---------------------------------------------------------- specification
Next ==
    \/ Tick
    \/ CtorBindOk
    \/ CtorBindFails
    \/ CtorFields
    \/ CtorStartThread
    \/ CtorFigure
    \/ RecvTimeout
    \/ RecvClosed
    \/ RecvContinue
    \/ \E d \in Datagrams : RecvDatagram(d)
    \/ RecvDecodeOk
    \/ RecvDecodeRaises
    \/ RecvAcquire
    \/ RecvAppend
    \/ RecvNow
    \/ RecvEvict
    \/ RecvRelease
    \/ ConsAcquire
    \/ ConsCopy
    \/ ConsRelease
    \/ ConsCheck
    \/ ConsProject
    \/ ConsDraw
    \/ Close
    \/ MainExit

Spec == Init /\ [][Next]_vars

\* Fair scheduling of the two threads around the lock: the consumer, once in
\* its guarded block, copies and leaves it; the receiver appends once it has
\* the lock; and a receiver that finds the lock free again and again gets it.
\* None of this outlives the interpreter: no step of a thread is enabled
\* once running is FALSE.
FairSpec ==
    /\ Spec
    /\ WF_vars(ConsCopy)
    /\ WF_vars(ConsRelease)
    /\ SF_vars(RecvAcquire)
    /\ WF_vars(RecvAppend)

\* ------------------------------------------------------------ properties
\* The receiver is outside _update_data_while_locked and out of the lock.
RecvOutside == recvPc \in {"recv", "timedout", "decode", "dead"}
\* The receiver is inside "with self._lock".
RecvCritical == recvPc \in {"append", "now", "evict", "unlock"}
\* The consumer is inside "with self._lock".
ConsCritical == mainPc \in {"copy", "release"}

\* s is a suffix of t.
IsSuffix(s, t) ==
    /\ Len(s) <= Len(t)
    /\ s = SubSeq(t, Len(t) - Len(s) + 1, Len(t))

\* C1: once an append has finished and the lock is released, every sample
\* left in the buffer has timestamp >= (timestamp of the sample just
\* appended) - window_s.  Outside the lock, a non-empty point is the sample
\* of the last finished append.
C1_WindowInvariant ==
    (RecvOutside /\ point # <<>>) =>
        \A i \in 1..Len(data) :
            data[i].timestamp >= point[1].timestamp - WindowS

\* An append has finished that evicted a sample and left one.
C1_Witness ==
    /\ recvPc = "recv"
    /\ point # <<>>
    /\ nEvicted >= 1
    /\ Len(data) >= 1

\* C2: a datagram that fails to decode is dropped and the receiver loop goes
\* on to the next receive, the buffer untouched; the loop does not stop.
C2_DecodeFailureAbsorbed ==
    [][(recvPc = "decode" /\ DeserializeRaises(raw[1]) /\ recvPc' # "decode")
          => (recvPc' = "recv" /\ data' = data)]_vars

\* C3: under every interleaving, the buffer holds exactly the appended
\* samples minus the evicted ones, every decoded sample has been appended
\* once (the one the receiver still holds excepted), and a snapshot is a run
\* of consecutive appended samples (none twice, none never appended).
C3_NoLostNoDuplicate ==
    /\ nEvicted <= Len(appended)
    /\ data = SubSeq(appended, nEvicted + 1, Len(appended))
    /\ Len(appended) = nDecoded - (IF recvPc \in {"lock", "append"} THEN 1 ELSE 0)
    /\ \E i \in 0..Len(appended) :
          /\ i + Len(snapshot) <= Len(appended)
          /\ snapshot = SubSeq(appended, i + 1, i + Len(snapshot))

\* The consumer works on a snapshot of two samples while the receiver has
\* appended a third and evicted.
C3_Witness ==
    /\ mainPc = "project"
    /\ Len(snapshot) >= 2
    /\ Len(appended) >= 3
    /\ nEvicted >= 1

\* C4: a snapshot, when taken, is a suffix of the sequence of all samples
\* appended so far (the consumer still holds the lock at "release", so
\* nothing was appended since the copy); the buffer is always such a suffix.
C4_OrderPreserved ==
    /\ IsSuffix(data, appended)
    /\ mainPc = "release" => IsSuffix(snapshot, appended)
    /\ \E n \in 0..Len(appended) : IsSuffix(snapshot, SubSeq(appended, 1, n))

\* A snapshot of two different samples was just taken, after an eviction.
C4_Witness ==
    /\ mainPc = "release"
    /\ Len(snapshot) >= 2
    /\ snapshot[1] # snapshot[2]
    /\ nEvicted >= 1

\* C5 as stated: the eviction reference is the timestamp of the sample just
\* appended: only samples with timestamp < point.timestamp - window_s are
\* evicted, and eviction stops at the first sample that is not.
C5_EvictionUsesSampleTimestamp ==
    /\ [][(recvPc = "evict" /\ nEvicted' = nEvicted + 1)
            => data[1].timestamp < point[1].timestamp - WindowS]_vars
    /\ [](recvPc = "unlock" =>
            (data = <<>>
             \/ ~(data[1].timestamp < point[1].timestamp - WindowS)))

\* C5 as amended: the eviction reference is now, the clock read after the
\* sample is appended (now >= point.timestamp): only samples with timestamp
\* < now - window_s are evicted, all from the front, and eviction stops at
\* the first sample that is not (or when the buffer is empty).
C5_EvictionUsesNow ==
    /\ [][(recvPc = "evict" /\ nEvicted' = nEvicted + 1)
            => (data[1].timestamp < now - WindowS /\ data' = Tail(data))]_vars
    /\ [](recvPc \in {"evict", "unlock"} => now >= point[1].timestamp)
    /\ [](recvPc = "unlock" =>
            (data = <<>> \/ ~(data[1].timestamp < now - WindowS)))

\* An append is done whose eviction removed a sample that was inside the
\* window of the appended sample's own timestamp.
C5_Witness ==
    /\ recvPc = "unlock"
    /\ nEvicted >= 1
    /\ now > point[1].timestamp
    /\ appended[nEvicted].timestamp >= point[1].timestamp - WindowS

\* C6: the buffer is appended to, evicted from and copied only with the lock
\* held by the thread doing it; each thread holds the lock exactly while it
\* is inside its "with self._lock" block, so never while receiving,
\* decoding, computing series or drawing, and never both at once.
C6_LockDiscipline ==
    /\ [](RecvCritical <=> lock = "receiver")
    /\ [](ConsCritical <=> lock = "consumer")
    /\ [](~(RecvCritical /\ ConsCritical))
    /\ [][data' # data => (lock = "receiver" /\ RecvCritical)]_vars
    /\ [][(mainPc = "copy" /\ mainPc' = "release") => lock = "consumer"]_vars

\* The consumer copies a non-empty buffer while the receiver waits for the
\* lock with a decoded sample.
C6_Witness ==
    /\ mainPc = "release"
    /\ lock = "consumer"
    /\ recvPc = "lock"
    /\ Len(snapshot) >= 1

\* C7: a receiver that has decoded a sample and waits for the lock
\* eventually holds it and has appended the sample.
C7_ProducerNotBlocked ==
    (recvPc = "lock") ~> (recvPc = "now" /\ lock = "receiver")

\* The receiver waits for the lock while the consumer holds it.
C7_Witness ==
    /\ recvPc = "lock"
    /\ lock = "consumer"

\* Every key deserialize reads is present in the payload d, at its place.
Complete(d) ==
    /\ d.form = "object"
    /\ d.roll.k # "absent" /\ d.pitch.k # "absent" /\ d.temp.k # "absent"
    /\ d.gyro.k = "obj" /\ d.acc.k = "obj"
    /\ \A v \in {d.gyro.x, d.gyro.y, d.gyro.z, d.acc.x, d.acc.y, d.acc.z} :
          v.k # "absent"

\* Every field of the sample m holds a value.
Populated(m) ==
    \A v \in {m.temp, m.rot.roll, m.rot.pitch, m.gyro.x, m.gyro.y, m.gyro.z,
              m.acc.x, m.acc.y, m.acc.z} : v.k # "absent"

\* C8: a datagram whose decoding fails leaves the buffer unchanged, and
\* every sample ever appended (so every sample in the buffer or in a
\* snapshot) has every field populated with the values of a payload that
\* held every required field.
C8_NoPartialSample ==
    /\ [][(recvPc = "decode" /\ DeserializeRaises(raw[1]))
            => (data' = data /\ appended' = appended /\ point' = point
                /\ recvPc' \notin {"lock", "append"})]_vars
    /\ [](\A i \in 1..Len(appended) :
            /\ Populated(appended[i])
            /\ \E d \in Datagrams :
                  /\ Complete(d)
                  /\ appended[i] = Deserialize(d, appended[i].timestamp))

\* A datagram has failed to decode after a sample had entered the buffer.
C8_Witness ==
    /\ recvPc = "dead"
    /\ nRecv > nDecoded
    /\ Len(data) >= 1

\* Every field of the sample m is a number.
Numeric(m) ==
    \A v \in {m.temp, m.rot.roll, m.rot.pitch, m.gyro.x, m.gyro.y, m.gyro.z,
              m.acc.x, m.acc.y, m.acc.z} : v.k \in {"num", "int"}

\* C9: deserialize yields no Sample when a required field is present but
\* non-numeric: every Sample it returns holds numbers only.
C9_NonNumericRejected ==
    point # <<>> => Numeric(point[1])

\* C10: if binding the socket fails, the constructor raises before any
\* receiving begins: the receiver thread is never started, nothing is
\* received and nothing is appended.
C10_BindFailureRaised ==
    (mainPc # "ctor" /\ ~sockBound /\ ~sockClosed) =>
        /\ mainPc = "raised"
        /\ recvPc = "notstarted"
        /\ nRecv = 0
        /\ appended = <<>>
        /\ data = <<>>

\* The bind has failed and time has passed since.
C10_Witness ==
    /\ mainPc = "raised"
    /\ ~sockBound
    /\ clock >= 1

\* C11: a receive timeout has no effect on data: nothing is appended or
\* evicted, the receiver does not take the lock, and its next step is the
\* next receive attempt.
C11_TimeoutNoEffect ==
    /\ [][(recvPc = "recv" /\ recvPc' = "timedout")
            => (data' = data /\ lock' = lock /\ point' = point
                /\ appended' = appended /\ nEvicted' = nEvicted)]_vars
    /\ [][recvPc = "timedout"
            => (data' = data /\ appended' = appended /\ nEvicted' = nEvicted
                /\ lock' # "receiver" /\ recvPc' \in {"timedout", "recv"})]_vars
    /\ [](recvPc = "timedout" => lock # "receiver")

\* A receive has timed out with samples in the buffer.
C11_Witness ==
    /\ recvPc = "timedout"
    /\ Len(data) >= 1
    /\ nRecv >= 1

\* C13: the snapshot is an independent copy: once taken it keeps its
\* contents whatever the receiver appends or evicts, and the consumer's
\* steps after the copy never change the buffer.
C13_SnapshotIndependent ==
    /\ [][(mainPc \in {"release", "check", "project", "draw"}
           /\ mainPc' = mainPc) => snapshot' = snapshot]_vars
    /\ [][data' # data => snapshot' = snapshot]_vars
    /\ [][mainPc' # mainPc => data' = data]_vars

\* The consumer is projecting a snapshot that the buffer no longer equals.
C13_Witness ==
    /\ mainPc = "project"
    /\ Len(snapshot) >= 2
    /\ snapshot # data
    /\ Len(appended) >= 3

\* s is ordered by timestamp, front to back.
TimeOrdered(s) ==
    \A i, j \in 1..Len(s) : i <= j => s[i].timestamp <= s[j].timestamp

\* C17: timestamps in the buffer (and in the sequence of all appends, and in
\* every snapshot) never decrease from front to back, so after the eviction
\* loop no sample outside the window is left anywhere in the buffer.
C17_TimestampsOrdered ==
    /\ TimeOrdered(data)
    /\ TimeOrdered(appended)
    /\ TimeOrdered(snapshot)
    /\ recvPc = "unlock" =>
          \A i \in 1..Len(data) : data[i].timestamp >= now - WindowS

\* The buffer holds two samples of different timestamps after an eviction.
C17_Witness ==
    /\ recvPc = "unlock"
    /\ Len(data) >= 2
    /\ data[1].timestamp < data[Len(data)].timestamp
    /\ nEvicted >= 1

\* C18 as stated: right after _update_data_while_locked(point) the buffer is
\* not empty and its last element is point.
C18_AppendedSampleKept ==
    recvPc = "unlock" => (data # <<>> /\ data[Len(data)] = point[1])

\* C18 as amended: right after _update_data_while_locked(point) the buffer
\* is not empty and ends with point when now - point.timestamp <= window_s;
\* when more time than window_s passed between the decoding and the clock
\* read of the append, point itself is evicted and the buffer is empty.
C18_AppendedSampleKeptWithinWindow ==
    recvPc = "unlock" =>
        IF now - point[1].timestamp <= WindowS
        THEN data # <<>> /\ data[Len(data)] = point[1]
        ELSE data = <<>>

\* An append has just ended whose sample waited for exactly window_s.
C18_Witness ==
    /\ recvPc = "unlock"
    /\ now - point[1].timestamp = WindowS
    /\ Len(data) >= 2

\* C19: every relative timestamp (timestamp - start_time) of a sample that
\* was appended, hence of every snapshot element, is >= 0, and the start
\* time does not change once the constructor has set it.
C19_RelativeTimeNonNegative ==
    /\ [](\A i \in 1..Len(appended) : appended[i].timestamp - start_time >= 0)
    /\ [](\A i \in 1..Len(snapshot) : snapshot[i].timestamp - start_time >= 0)
    /\ [](recvPc # "notstarted" => start_time <= clock)
    /\ [][mainPc \notin {"ctor", "bound"} => start_time' = start_time]_vars

\* A snapshot is being projected whose first sample was stamped at the start
\* time itself, the start time being later than the clock's origin.
C19_Witness ==
    /\ mainPc = "project"
    /\ start_time >= 1
    /\ snapshot[1].timestamp = start_time

\* C12: update() on a copy of 0 or 1 samples is a no-op tick: it returns
\* without an error, leaves every line, both axis ranges and the buffer as
\* they were, and no line ever holds a single point.
C12_InsufficientDataNoOp ==
    /\ [][(mainPc = "check" /\ Len(snapshot) <= 1 /\ mainPc' # mainPc)
            => (mainPc' = "idle" /\ lines' = lines /\ xlim' = xlim
                /\ ylim' = ylim /\ data' = data)]_vars
    /\ [](\A r \in 1..Len(lines) :
            Len(lines[r].xdata) # 1 /\ Len(lines[r].ydata) # 1)

\* update() is looking at a copy of one sample, an earlier call having drawn.
C12_Witness ==
    /\ mainPc = "check"
    /\ Len(snapshot) = 1
    /\ Len(lines) >= 1
    /\ Len(lines[1].xdata) >= 2

\* C14: for a copy of at least 2 samples update() sets the x range to
\* [0, window_s] when the newest relative timestamp is < window_s and to
\* [oldest, newest relative timestamp] otherwise.
C14_XRangeSet ==
    [][(mainPc = "project" /\ mainPc' # "project") =>
        LET oldest == snapshot[1].timestamp - start_time
            newest == snapshot[Len(snapshot)].timestamp - start_time
        IN  xlim' = IF newest < WindowS THEN <<0, WindowS>>
                    ELSE <<oldest, newest>>]_vars

\* C15: the projection has exactly the number of series fixed for the
\* channel (temp 1, rot 2, gyro 3, acc 3), which is the number of lines;
\* each series has one value per element of the copy; the assertion of line
\* 207 never fails; and once the lines are set each holds the relative
\* timestamps and one value per element.
C15_SeriesCount ==
    /\ mainPc # "raised_assert"
    /\ mainPc = "project" =>
          LET rows == Rows(snapshot, meas_type)
          IN  /\ Len(rows) = CASE meas_type = "temp" -> 1
                               [] meas_type = "rot" -> 2
                               [] meas_type = "gyro" -> 3
                               [] meas_type = "acc" -> 3
              /\ Len(rows) = Len(lines)
              /\ \A r \in 1..Len(rows) : Len(rows[r]) = Len(snapshot)
    /\ mainPc = "draw" =>
          \A r \in 1..Len(lines) :
              /\ Len(lines[r].xdata) = Len(snapshot)
              /\ Len(lines[r].ydata) = Len(snapshot)
              /\ \A i \in 1..Len(snapshot) :
                    lines[r].xdata[i] = snapshot[i].timestamp - start_time

\* The three gyro series of a copy of three samples have been set.
C15_Witness ==
    /\ mainPc = "draw"
    /\ meas_type = "gyro"
    /\ Len(snapshot) = 3
    /\ Len(lines) = 3

\* C16: update() on a copy of numbers projects every value: the raw value
\* for temp, rot and gyro, the raw value times -9.8 for acc (in hundredths:
\* times 100, times -980); the samples in the copy keep their raw values.
C16_UnitConversion ==
    [][(/\ mainPc = "project"
        /\ mainPc' # "project"
        /\ RowKinds(Rows(snapshot, meas_type)) \subseteq {"num", "int"})
       => /\ mainPc' = "draw"
          /\ snapshot' = snapshot
          /\ \A r \in 1..Len(lines') : \A i \in 1..Len(snapshot) :
                lines'[r].ydata[i].n =
                    Rows(snapshot, meas_type)[r][i].n
                        * (IF meas_type = "acc" THEN -980 ELSE 100)]_vars

====
